---------------------------- MODULE Spec2Model ----------------------------
(***************************************************************************)
(* Mergington High School activities API (src/src/app.py).                 *)
(*                                                                         *)
(* The program is a module-level dict `activities` and three request       *)
(* handlers over it: get_activities, signup_for_activity and               *)
(* unregister_from_activity.  The model keeps the dict as a function from  *)
(* activity name to activity record, the rosters as sequences (Python      *)
(* lists), and the HTTP response of the last handled request.              *)
(***************************************************************************)
EXTENDS Naturals, Sequences, FiniteSets, TLC

VARIABLES
    activities,   \* the in-memory activity database (app.py:23)
    resp,         \* the request last handled and the response it got
    enrolled,     \* history: per activity, who the responses say is enrolled
    rereg,        \* history: the last step was a signup right after the
                  \* successful unregister of the same student and activity
    repeated,     \* history: the last step repeated the successful signup or
                  \* unregister handled right before it
    undone,       \* history: the last step was an unregister right after the
                  \* successful signup of the same student and activity
    before,       \* history: after a successful signup, the registry as it
                  \* was before that signup; otherwise the registry as it is
    threads       \* the requests being handled at the same time, one per
                  \* worker thread: where each is in its handler

vars == <<activities, resp, enrolled, rereg, repeated, undone, before,
          threads>>

---------------------------------------------------------------------------
(* Bounds of the model *)

\* new students (not in any seed roster) the requests may name
NumNewStudents == 1

\* new students the capacity runs may name: Tennis Club seats 8 and is
\* seeded with 1, so 8 new students are what it takes to overfill it
NumCapStudents == 8

\* worker threads that handle requests at the same time
NumThreads == 2

---------------------------------------------------------------------------
(* The seed database, app.py:23-78 *)

SeedActivities ==
    [n \in {"Chess Club", "Programming Class", "Gym Class", "Basketball",
            "Tennis Club", "Art Studio", "Drama Club", "Debate Team",
            "Science Olympiad"} |->
      CASE n = "Chess Club" ->
             [description |-> "Learn strategies and compete in chess tournaments",
              schedule |-> "Fridays, 3:30 PM - 5:00 PM",
              max_participants |-> 12,
              participants |-> <<"michael@mergington.edu", "daniel@mergington.edu">>]
        [] n = "Programming Class" ->
             [description |-> "Learn programming fundamentals and build software projects",
              schedule |-> "Tuesdays and Thursdays, 3:30 PM - 4:30 PM",
              max_participants |-> 20,
              participants |-> <<"emma@mergington.edu", "sophia@mergington.edu">>]
        [] n = "Gym Class" ->
             [description |-> "Physical education and sports activities",
              schedule |-> "Mondays, Wednesdays, Fridays, 2:00 PM - 3:00 PM",
              max_participants |-> 30,
              participants |-> <<"john@mergington.edu", "olivia@mergington.edu">>]
        [] n = "Basketball" ->
             [description |-> "Learn basketball skills and participate in friendly games",
              schedule |-> "Mondays and Wednesdays, 4:00 PM - 5:30 PM",
              max_participants |-> 15,
              participants |-> <<"james@mergington.edu">>]
        [] n = "Tennis Club" ->
             [description |-> "Tennis coaching and competitive matches",
              schedule |-> "Tuesdays and Thursdays, 4:00 PM - 5:30 PM",
              max_participants |-> 8,
              participants |-> <<"alex@mergington.edu">>]
        [] n = "Art Studio" ->
             [description |-> "Painting, drawing, and mixed media art projects",
              schedule |-> "Wednesdays and Fridays, 3:30 PM - 5:00 PM",
              max_participants |-> 18,
              participants |-> <<"isabella@mergington.edu", "grace@mergington.edu">>]
        [] n = "Drama Club" ->
             [description |-> "Theater performances and acting workshops",
              schedule |-> "Mondays and Thursdays, 3:30 PM - 5:00 PM",
              max_participants |-> 25,
              participants |-> <<"lucas@mergington.edu">>]
        [] n = "Debate Team" ->
             [description |-> "Competitive debate and public speaking skills",
              schedule |-> "Tuesdays, 3:30 PM - 5:00 PM",
              max_participants |-> 16,
              participants |-> <<"aaron@mergington.edu", "mia@mergington.edu">>]
        [] n = "Science Olympiad" ->
             [description |-> "STEM competitions and scientific research projects",
              schedule |-> "Fridays, 3:30 PM - 5:00 PM",
              max_participants |-> 20,
              participants |-> <<"ryan@mergington.edu">>]]

---------------------------------------------------------------------------
(* The requests the model sends *)

\* a student address of the kind the tests use (student1@test.edu, ...)
NewStudent(i) == "student" \o ToString(i) \o "@test.edu"

NewStudents(k) == {NewStudent(i) : i \in 1..k}

\* activity names of the requests: two seeded ones and one that is no key
ReqNames == {"Chess Club", "Tennis Club", "Nonexistent Activity"}

\* emails of the requests: a seeded participant and the new students
ReqEmails == {"michael@mergington.edu"} \cup NewStudents(NumNewStudents)

\* activity names and emails of the requests handled at the same time
ConcNames == {"Chess Club", "Nonexistent Activity"}

ConcEmails == {"michael@mergington.edu", NewStudent(1)}

Threads == 1..NumThreads

---------------------------------------------------------------------------
(* Python list operations on a roster *)

\* x in s
Contains(s, x) == \E i \in 1..Len(s) : s[i] = x

\* a slip: the new entry goes to the front, s.insert(0, x)
ListInsertFront(s, x) == <<x>> \o s

\* s.append(x)
ListAppend(s, x) == Append(s, x)

\* a slip: s.pop() drops the last entry, whoever it is
ListPop(s, x) == SubSeq(s, 1, Len(s) - 1)

\* a slip: the removal is lost (it acts on a copy of the list)
ListRemoveNothing(s, x) == s

\* a slip: the roster is rebuilt without x and comes out in another order
ListRemoveReordered(s, x) ==
    LET kept == SelectSeq(s, LAMBDA y : y # x)
    IN  [i \in 1..Len(kept) |-> kept[Len(kept) + 1 - i]]

\* s.remove(x): drops the first occurrence of x; the caller raises
\* ValueError when there is none
ListRemove(s, x) ==
    IF ~Contains(s, x) THEN s
    ELSE LET i == CHOOSE k \in 1..Len(s) :
                     s[k] = x /\ \A j \in 1..(k - 1) : s[j] # x
         IN  SubSeq(s, 1, i - 1) \o SubSeq(s, i + 1, Len(s))

\* the entries of a list, as a set
Members(s) == {s[i] : i \in 1..Len(s)}

---------------------------------------------------------------------------
(* Responses *)

NoBody == [n \in {} |-> 0]

\* return {"message": ...}: FastAPI answers 200
Ok(op, activity_name, email, message) ==
    [op |-> op, activity_name |-> activity_name, email |-> email,
     status_code |-> 200, message |-> message, detail |-> "", body |-> NoBody]

\* raise HTTPException(status_code=..., detail=...)
HTTPException(op, activity_name, email, status_code, detail) ==
    [op |-> op, activity_name |-> activity_name, email |-> email,
     status_code |-> status_code, message |-> "", detail |-> detail,
     body |-> NoBody]

\* an exception no handler catches (list.remove's ValueError): FastAPI
\* answers 500
Unhandled(op, activity_name, email) ==
    [op |-> op, activity_name |-> activity_name, email |-> email,
     status_code |-> 500, message |-> "", detail |-> "Internal Server Error",
     body |-> NoBody]

---------------------------------------------------------------------------
(* The handlers *)

\* activity_name in activities
ActivityExists(activity_name) == activity_name \in DOMAIN activities

\* a slip: the duplicate check is missing
AlreadySignedUpNever(activity, email) == FALSE

\* email in activity.get("participants", [])
AlreadySignedUp(activity, email) == Contains(activity.participants, email)

\* a slip: the membership check is missing
NotSignedUpNever(activity, email) == FALSE

\* email not in activity.get("participants", [])
NotSignedUp(activity, email) == ~Contains(activity.participants, email)

\* a slip: the handler returns a copy taken at startup
get_activities_seed ==
    /\ resp' = [op |-> "list", activity_name |-> "", email |-> "",
                status_code |-> 200, message |-> "", detail |-> "",
                body |-> SeedActivities]
    /\ UNCHANGED activities

\* GET /activities
get_activities ==
    /\ resp' = [op |-> "list", activity_name |-> "", email |-> "",
                status_code |-> 200, message |-> "", detail |-> "",
                body |-> activities]
    /\ UNCHANGED activities

\* a slip: activities.setdefault(activity_name, {...}) instead of the 404
signup_with_setdefault(activity_name, email) ==
    LET known == [n \in DOMAIN activities \cup {activity_name} |->
                    IF n \in DOMAIN activities THEN activities[n]
                    ELSE [description |-> "", schedule |-> "",
                          max_participants |-> 0, participants |-> << >>]]
    IN  IF Contains(known[activity_name].participants, email)
        THEN /\ resp' = HTTPException("signup", activity_name, email, 400,
                            "Student already signed up for this activity")
             /\ activities' = known
        ELSE /\ activities' =
                   [known EXCEPT ![activity_name].participants =
                                     Append(@, email)]
             /\ resp' = Ok("signup", activity_name, email,
                           "Signed up " \o email \o " for " \o activity_name)

\* a slip: the signup also counts down the activity's free places
signup_counting_places(activity_name, email) ==
    IF ~ActivityExists(activity_name)
    THEN /\ resp' = HTTPException("signup", activity_name, email,
                                  404, "Activity not found")
         /\ UNCHANGED activities
    ELSE IF AlreadySignedUp(activities[activity_name], email)
    THEN /\ resp' = HTTPException("signup", activity_name, email, 400,
                        "Student already signed up for this activity")
         /\ UNCHANGED activities
    ELSE /\ activities' =
               [activities EXCEPT ![activity_name].participants =
                                      ListAppend(@, email),
                                  ![activity_name].max_participants = @ - 1]
         /\ resp' = Ok("signup", activity_name, email,
                       "Signed up " \o email \o " for " \o activity_name)

\* POST /activities/{activity_name}/signup
signup_for_activity(activity_name, email) ==
    IF ~ActivityExists(activity_name)
    THEN /\ resp' = HTTPException("signup", activity_name, email,
                                  404, "Activity not found")
         /\ UNCHANGED activities
    ELSE IF AlreadySignedUp(activities[activity_name], email)
    THEN /\ resp' = HTTPException("signup", activity_name, email, 400,
                        "Student already signed up for this activity")
         /\ UNCHANGED activities
    ELSE /\ activities' =
               [activities EXCEPT ![activity_name].participants =
                                      ListAppend(@, email)]
         /\ resp' = Ok("signup", activity_name, email,
                       "Signed up " \o email \o " for " \o activity_name)

\* a slip: activities.get(activity_name, {}) instead of the 404
unregister_without_lookup(activity_name, email) ==
    LET participants == IF activity_name \in DOMAIN activities
                        THEN activities[activity_name].participants
                        ELSE << >>
    IN  IF ~Contains(participants, email)
        THEN /\ resp' = HTTPException("unregister", activity_name, email, 400,
                            "Student is not signed up for this activity")
             /\ UNCHANGED activities
        ELSE /\ activities' =
                   [activities EXCEPT ![activity_name].participants =
                                          ListRemove(@, email)]
             /\ resp' = Ok("unregister", activity_name, email,
                           "Unregistered " \o email \o " from " \o activity_name)

\* POST /activities/{activity_name}/unregister
unregister_from_activity(activity_name, email) ==
    IF ~ActivityExists(activity_name)
    THEN /\ resp' = HTTPException("unregister", activity_name, email,
                                  404, "Activity not found")
         /\ UNCHANGED activities
    ELSE IF NotSignedUp(activities[activity_name], email)
    THEN /\ resp' = HTTPException("unregister", activity_name, email, 400,
                        "Student is not signed up for this activity")
         /\ UNCHANGED activities
    ELSE IF ~Contains(activities[activity_name].participants, email)
    THEN /\ resp' = Unhandled("unregister", activity_name, email)
         /\ UNCHANGED activities
    ELSE /\ activities' =
               [activities EXCEPT ![activity_name].participants =
                                      ListRemove(@, email)]
         /\ resp' = Ok("unregister", activity_name, email,
                       "Unregistered " \o email \o " from " \o activity_name)

---------------------------------------------------------------------------
(* History kept beside the program: what the responses so far say *)

Observe ==
    /\ enrolled' =
         IF resp'.status_code = 200 /\ resp'.op = "signup"
         THEN [n \in DOMAIN enrolled \cup {resp'.activity_name} |->
                 IF n = resp'.activity_name
                 THEN (IF n \in DOMAIN enrolled THEN enrolled[n] ELSE {})
                          \cup {resp'.email}
                 ELSE enrolled[n]]
         ELSE IF resp'.status_code = 200 /\ resp'.op = "unregister"
         THEN [n \in DOMAIN enrolled |->
                 IF n = resp'.activity_name
                 THEN enrolled[n] \ {resp'.email}
                 ELSE enrolled[n]]
         ELSE enrolled
    /\ rereg' = /\ resp.op = "unregister"
                /\ resp.status_code = 200
                /\ resp'.op = "signup"
                /\ resp'.activity_name = resp.activity_name
                /\ resp'.email = resp.email
    /\ repeated' = /\ resp.op \in {"signup", "unregister"}
                   /\ resp.status_code = 200
                   /\ resp'.op = resp.op
                   /\ resp'.activity_name = resp.activity_name
                   /\ resp'.email = resp.email
    /\ undone' = /\ resp.op = "signup"
                 /\ resp.status_code = 200
                 /\ resp'.op = "unregister"
                 /\ resp'.activity_name = resp.activity_name
                 /\ resp'.email = resp.email
    /\ before' = IF resp'.op = "signup" /\ resp'.status_code = 200
                 THEN activities
                 ELSE activities'

---------------------------------------------------------------------------
(* Specifications *)

\* no request handled yet
NoResponse ==
    [op |-> "none", activity_name |-> "", email |-> "",
     status_code |-> 0, message |-> "", detail |-> "", body |-> NoBody]

Init ==
    /\ activities = SeedActivities
    /\ resp = NoResponse
    /\ enrolled = [n \in DOMAIN SeedActivities |->
                      Members(SeedActivities[n].participants)]
    /\ rereg = FALSE
    /\ repeated = FALSE
    /\ undone = FALSE
    /\ before = SeedActivities
    /\ threads = [t \in Threads |-> [pc |-> "idle", resp |-> NoResponse]]

List == get_activities /\ Observe /\ UNCHANGED threads

Signup(activity_name, email) ==
    signup_for_activity(activity_name, email) /\ Observe /\ UNCHANGED threads

Unregister(activity_name, email) ==
    unregister_from_activity(activity_name, email) /\ Observe
        /\ UNCHANGED threads

Next ==
    \/ List
    \/ \E n \in ReqNames, e \in ReqEmails : Signup(n, e)
    \/ \E n \in ReqNames, e \in ReqEmails : Unregister(n, e)

Spec == Init /\ [][Next]_vars

\* the clients of the capacity runs: the new students ask for a place in
\* the order of their numbers, a student only once those before are enrolled
Arrives(i) ==
    \A j \in 1..(i - 1) :
        Contains(activities["Tennis Club"].participants, NewStudent(j))

\* requests of many new students for the smallest activity; the first of
\* them may also leave again
NextCap ==
    \/ List
    \/ \E i \in 1..NumCapStudents :
          Arrives(i) /\ Signup("Tennis Club", NewStudent(i))
    \/ \E e \in {NewStudent(1)} : Unregister("Tennis Club", e)

SpecCap == Init /\ [][NextCap]_vars

---------------------------------------------------------------------------
(* Requests handled at the same time.  The handlers are plain `def`        *)
(* functions, which FastAPI runs on worker threads, and they take no lock:  *)
(* a handler's checks (lines 95-103, 114-122) and its change of the roster  *)
(* (lines 106, 125) are separate steps, and steps of other threads may run  *)
(* between them.  Each list operation is one step of the interpreter.       *)

\* a request past its checks, not answered yet
Pending(op, activity_name, email) ==
    [op |-> op, activity_name |-> activity_name, email |-> email,
     status_code |-> 0, message |-> "", detail |-> "", body |-> NoBody]

Free(t) == threads[t].pc \in {"idle", "done"}

\* signup_for_activity, lines 95-103
SignupCheck(t, activity_name, email) ==
    /\ Free(t)
    /\ threads' = [threads EXCEPT ![t] =
          IF ~ActivityExists(activity_name)
          THEN [pc |-> "done",
                resp |-> HTTPException("signup", activity_name, email,
                                       404, "Activity not found")]
          ELSE IF AlreadySignedUp(activities[activity_name], email)
          THEN [pc |-> "done",
                resp |-> HTTPException("signup", activity_name, email, 400,
                             "Student already signed up for this activity")]
          ELSE [pc |-> "append",
                resp |-> Pending("signup", activity_name, email)]]
    /\ UNCHANGED <<activities, resp, enrolled, rereg, repeated, undone, before>>

\* signup_for_activity, lines 106-107
SignupAppend(t) ==
    /\ threads[t].pc = "append"
    /\ LET activity_name == threads[t].resp.activity_name
           email == threads[t].resp.email
       IN  /\ activities' =
                 [activities EXCEPT ![activity_name].participants =
                                        ListAppend(@, email)]
           /\ threads' = [threads EXCEPT ![t] =
                 [pc |-> "done",
                  resp |-> Ok("signup", activity_name, email,
                              "Signed up " \o email \o " for "
                                  \o activity_name)]]
    /\ UNCHANGED <<resp, enrolled, rereg, repeated, undone, before>>

\* unregister_from_activity, lines 114-122
UnregisterCheck(t, activity_name, email) ==
    /\ Free(t)
    /\ threads' = [threads EXCEPT ![t] =
          IF ~ActivityExists(activity_name)
          THEN [pc |-> "done",
                resp |-> HTTPException("unregister", activity_name, email,
                                       404, "Activity not found")]
          ELSE IF NotSignedUp(activities[activity_name], email)
          THEN [pc |-> "done",
                resp |-> HTTPException("unregister", activity_name, email, 400,
                             "Student is not signed up for this activity")]
          ELSE [pc |-> "remove",
                resp |-> Pending("unregister", activity_name, email)]]
    /\ UNCHANGED <<activities, resp, enrolled, rereg, repeated, undone, before>>

\* unregister_from_activity, lines 125-126: list.remove raises ValueError
\* when the email is not on the list, and nothing catches it
UnregisterRemove(t) ==
    /\ threads[t].pc = "remove"
    /\ LET activity_name == threads[t].resp.activity_name
           email == threads[t].resp.email
       IN  IF ~Contains(activities[activity_name].participants, email)
           THEN /\ threads' = [threads EXCEPT ![t] =
                      [pc |-> "done",
                       resp |-> Unhandled("unregister", activity_name, email)]]
                /\ UNCHANGED activities
           ELSE /\ activities' =
                      [activities EXCEPT ![activity_name].participants =
                                             ListRemove(@, email)]
                /\ threads' = [threads EXCEPT ![t] =
                      [pc |-> "done",
                       resp |-> Ok("unregister", activity_name, email,
                                   "Unregistered " \o email \o " from "
                                       \o activity_name)]]
    /\ UNCHANGED <<resp, enrolled, rereg, repeated, undone, before>>

NextConc ==
    \/ \E t \in Threads, n \in ConcNames, e \in ConcEmails :
          SignupCheck(t, n, e)
    \/ \E t \in Threads : SignupAppend(t)
    \/ \E t \in Threads, n \in ConcNames, e \in ConcEmails :
          UnregisterCheck(t, n, e)
    \/ \E t \in Threads : UnregisterRemove(t)

SpecConc == Init /\ [][NextConc]_vars

---------------------------------------------------------------------------
(* The claims.  A step that handles a request leaves the request in resp',  *)
(* so a property of "the call op(A, p)" is a property of the steps whose    *)
(* resp' names op, A and p, read against the registry before the step.      *)

Roster(reg, a) == reg[a].participants

NoDup(s) == \A i, j \in 1..Len(s) : i # j => s[i] # s[j]

\* C1: in every reachable state, the seed state included, no activity's
\* participants list holds the same participant twice.
C1_NoDuplicateParticipants ==
    \A a \in DOMAIN activities : NoDup(Roster(activities, a))

\* a duplicate signup was refused on a roster that has grown since the seed
C1_Witness ==
    /\ resp.op = "signup"
    /\ resp.status_code = 400
    /\ resp.email = NewStudent(1)
    /\ resp.activity_name = "Chess Club"
    /\ Len(Roster(activities, "Chess Club")) > 2

\* C2: signup(A, p) for an existing A and a p not on A's roster answers 200
\* with the message "Signed up {p} for {A}", and A's roster afterwards is
\* the roster before with p appended at its end.
C2_SignupAppends ==
    [][ ( /\ resp'.op = "signup"
          /\ resp'.activity_name \in DOMAIN activities
          /\ ~Contains(Roster(activities, resp'.activity_name), resp'.email) )
        => ( /\ resp'.status_code = 200
             /\ resp'.message =
                  "Signed up " \o resp'.email \o " for " \o resp'.activity_name
             /\ resp'.activity_name \in DOMAIN activities'
             /\ Roster(activities', resp'.activity_name) =
                  Append(Roster(activities, resp'.activity_name), resp'.email)
             /\ Len(Roster(activities', resp'.activity_name)) =
                  Len(Roster(activities, resp'.activity_name)) + 1
             /\ \A q \in Members(Roster(activities, resp'.activity_name)) :
                  Contains(Roster(activities', resp'.activity_name), q) )
      ]_vars

\* a new student was signed up for Chess Club behind the two seeded ones
C2_Witness ==
    /\ resp.op = "signup"
    /\ resp.status_code = 200
    /\ resp.email = NewStudent(1)
    /\ resp.activity_name = "Chess Club"
    /\ Roster(activities, "Chess Club") =
         <<"michael@mergington.edu", "daniel@mergington.edu", NewStudent(1)>>

\* C3: signup(A, p) for an existing A and a p already on A's roster answers
\* 400 "Student already signed up for this activity" and the registry is
\* the same before and after.
C3_DuplicateSignupRefused ==
    [][ ( /\ resp'.op = "signup"
          /\ resp'.activity_name \in DOMAIN activities
          /\ Contains(Roster(activities, resp'.activity_name), resp'.email) )
        => ( /\ resp'.status_code = 400
             /\ resp'.detail = "Student already signed up for this activity"
             /\ activities' = activities )
      ]_vars

\* the scenario of the tests: michael signs up for Chess Club again and the
\* roster keeps its 2 entries
C3_Witness ==
    /\ resp.op = "signup"
    /\ resp.status_code = 400
    /\ resp.email = "michael@mergington.edu"
    /\ resp.activity_name = "Chess Club"
    /\ Len(Roster(activities, "Chess Club")) = 2

\* C4: unregister(A, p) for an existing A and a p on A's roster answers 200
\* with the message "Unregistered {p} from {A}"; afterwards p is not on the
\* roster, the roster is one shorter, and everyone else is still on it.
C4_UnregisterRemoves ==
    [][ ( /\ resp'.op = "unregister"
          /\ resp'.activity_name \in DOMAIN activities
          /\ Contains(Roster(activities, resp'.activity_name), resp'.email) )
        => ( /\ resp'.status_code = 200
             /\ resp'.message =
                  "Unregistered " \o resp'.email \o " from "
                      \o resp'.activity_name
             /\ resp'.activity_name \in DOMAIN activities'
             /\ ~Contains(Roster(activities', resp'.activity_name), resp'.email)
             /\ Len(Roster(activities', resp'.activity_name)) =
                  Len(Roster(activities, resp'.activity_name)) - 1
             /\ \A q \in Members(Roster(activities, resp'.activity_name)) :
                  q # resp'.email =>
                      Contains(Roster(activities', resp'.activity_name), q) )
      ]_vars

\* the scenario of the spec: michael leaves Chess Club, daniel stays
C4_Witness ==
    /\ resp.op = "unregister"
    /\ resp.status_code = 200
    /\ resp.email = "michael@mergington.edu"
    /\ resp.activity_name = "Chess Club"
    /\ Roster(activities, "Chess Club") = <<"daniel@mergington.edu">>

\* C5: unregister(A, p) for an existing A and a p not on A's roster answers
\* 400 "Student is not signed up for this activity" and the registry is the
\* same before and after.
C5_UnregisterAbsentRefused ==
    [][ ( /\ resp'.op = "unregister"
          /\ resp'.activity_name \in DOMAIN activities
          /\ ~Contains(Roster(activities, resp'.activity_name), resp'.email) )
        => ( /\ resp'.status_code = 400
             /\ resp'.detail = "Student is not signed up for this activity"
             /\ activities' = activities )
      ]_vars

\* a student who is on the Tennis Club roster only is refused at Chess Club
C5_Witness ==
    /\ resp.op = "unregister"
    /\ resp.status_code = 400
    /\ resp.activity_name = "Chess Club"
    /\ resp.email = NewStudent(1)
    /\ Contains(Roster(activities, "Tennis Club"), NewStudent(1))

\* C6: signup and unregister for a name that is no key of the registry
\* answer 404 "Activity not found", whoever the participant is, and the
\* registry (its keys and every activity) is the same before and after.
C6_UnknownActivityNotFound ==
    [][ ( /\ resp'.op \in {"signup", "unregister"}
          /\ resp'.activity_name \notin DOMAIN activities )
        => ( /\ resp'.status_code = 404
             /\ resp'.detail = "Activity not found"
             /\ activities' = activities )
      ]_vars

\* a participant enrolled elsewhere asked for the unknown activity
C6_Witness ==
    /\ resp.op \in {"signup", "unregister"}
    /\ resp.status_code = 404
    /\ resp.activity_name = "Nonexistent Activity"
    /\ resp.email = "michael@mergington.edu"
    /\ Contains(Roster(activities, "Tennis Club"), "michael@mergington.edu")

\* C7: in every reachable state every activity has at most max_participants
\* participants.
C7_CapacityBounded ==
    \A a \in DOMAIN activities :
        Len(Roster(activities, a)) <= activities[a].max_participants

\* C8: a signup(A, p) that follows the successful unregister(A, p) answers
\* 200 and p is on A's roster again.
C8_ReRegistrationWorks ==
    [][ ( /\ resp.op = "unregister"
          /\ resp.status_code = 200
          /\ resp'.op = "signup"
          /\ resp'.activity_name = resp.activity_name
          /\ resp'.email = resp.email )
        => ( /\ resp'.status_code = 200
             /\ resp'.activity_name \in DOMAIN activities'
             /\ Contains(Roster(activities', resp'.activity_name), resp'.email) )
      ]_vars

\* a seeded participant has left Chess Club and signed up again
C8_Witness ==
    /\ rereg
    /\ resp.op = "signup"
    /\ resp.status_code = 200
    /\ resp.email = "michael@mergington.edu"
    /\ Roster(activities, "Chess Club") =
         <<"daniel@mergington.edu", "michael@mergington.edu">>

\* C9: in every reachable state the registry's keys are the 9 seeded names,
\* and what list_activities returns has exactly those keys.
C9_ActivityNamesFixed ==
    /\ DOMAIN activities = DOMAIN SeedActivities
    /\ Cardinality(DOMAIN activities) = 9
    /\ resp.op = "list" => DOMAIN resp.body = DOMAIN SeedActivities

\* the activities are listed after requests have changed two rosters
C9_Witness ==
    /\ resp.op = "list"
    /\ Cardinality(DOMAIN resp.body) = 9
    /\ Roster(activities, "Chess Club") # Roster(SeedActivities, "Chess Club")
    /\ Roster(activities, "Tennis Club") # Roster(SeedActivities, "Tennis Club")

\* C10: list_activities can always be called, answers 200, changes nothing
\* and returns the registry as it is: for every activity the participants
\* returned are those the responses so far account for (the seeded ones and
\* those signed up with success, less those unregistered with success).
C10_ListReturnsSnapshot ==
    /\ [](ENABLED List)
    /\ [][ resp'.op = "list"
           => ( /\ resp'.status_code = 200
                /\ activities' = activities
                /\ resp'.body = activities
                /\ DOMAIN resp'.body = DOMAIN enrolled
                /\ \A a \in DOMAIN resp'.body :
                     Members(resp'.body[a].participants) = enrolled[a] )
         ]_vars

\* the scenario of the tests: two students signed up for Tennis Club are
\* both listed, and so is the absence of one who left Chess Club
C10_Witness ==
    /\ resp.op = "list"
    /\ Contains(resp.body["Tennis Club"].participants, NewStudent(1))
    /\ Contains(resp.body["Tennis Club"].participants, "michael@mergington.edu")
    /\ ~Contains(resp.body["Chess Club"].participants, "michael@mergington.edu")

\* C11: in every reachable state, for every existing activity A and every
\* participant p, one of signup(A, p) and unregister(A, p) answers 200 and
\* the other answers its 400 error and changes nothing, never both 200; and
\* the same call made again right after it answered 200 answers that 400
\* error (not a 500) and leaves the registry as it is.
C11_TwoStateMembership ==
    /\ [](\A a \in DOMAIN activities : \A p \in ReqEmails :
            LET signupOk ==
                  ENABLED (signup_for_activity(a, p) /\ resp'.status_code = 200)
                signupErr ==
                  ENABLED ( /\ signup_for_activity(a, p)
                            /\ resp'.status_code = 400
                            /\ resp'.detail =
                                 "Student already signed up for this activity"
                            /\ activities' = activities )
                unregisterOk ==
                  ENABLED ( /\ unregister_from_activity(a, p)
                            /\ resp'.status_code = 200 )
                unregisterErr ==
                  ENABLED ( /\ unregister_from_activity(a, p)
                            /\ resp'.status_code = 400
                            /\ resp'.detail =
                                 "Student is not signed up for this activity"
                            /\ activities' = activities )
            IN  IF signupOk
                THEN unregisterErr /\ ~unregisterOk
                ELSE unregisterOk /\ signupErr)
    /\ [][ ( /\ resp.op \in {"signup", "unregister"}
             /\ resp.status_code = 200
             /\ resp'.op = resp.op
             /\ resp'.activity_name = resp.activity_name
             /\ resp'.email = resp.email )
           => ( /\ resp'.status_code = 400
                /\ resp'.detail =
                     IF resp.op = "signup"
                     THEN "Student already signed up for this activity"
                     ELSE "Student is not signed up for this activity"
                /\ activities' = activities )
         ]_vars

\* a seeded participant unregistered from Chess Club twice in a row
C11_Witness ==
    /\ repeated
    /\ resp.op = "unregister"
    /\ resp.status_code = 400
    /\ resp.email = "michael@mergington.edu"
    /\ resp.activity_name = "Chess Club"

\* C12: no step adds or removes an activity or changes an activity's
\* description, schedule or max_participants, and a step changes at most
\* the participants list of the activity a successful signup or unregister
\* names.
C12_OnlyNamedRosterChanges ==
    [][ /\ DOMAIN activities' = DOMAIN activities
        /\ \A a \in DOMAIN activities :
             /\ activities'[a].description = activities[a].description
             /\ activities'[a].schedule = activities[a].schedule
             /\ activities'[a].max_participants = activities[a].max_participants
             /\ DOMAIN activities'[a] = DOMAIN activities[a]
             /\ Roster(activities', a) # Roster(activities, a)
                  => /\ resp'.op \in {"signup", "unregister"}
                     /\ resp'.status_code = 200
                     /\ resp'.activity_name = a
      ]_vars

\* a successful signup for Tennis Club after Chess Club's roster has
\* changed: the step leaves Chess Club's changed roster alone
C12_Witness ==
    /\ resp.op = "signup"
    /\ resp.status_code = 200
    /\ resp.activity_name = "Tennis Club"
    /\ resp.email = "michael@mergington.edu"
    /\ Roster(activities, "Chess Club") = <<"daniel@mergington.edu", NewStudent(1)>>
    /\ Roster(before, "Chess Club") = <<"daniel@mergington.edu", NewStudent(1)>>
    /\ Roster(before, "Tennis Club") = <<"alex@mergington.edu">>

\* C13: an unregister(A, p) that directly follows the successful signup(A, p)
\* answers 200 and leaves the whole registry, the order of A's roster
\* included, as it was before that signup.
C13_SignupUnregisterRoundTrip ==
    [][ ( /\ resp.op = "signup"
          /\ resp.status_code = 200
          /\ resp'.op = "unregister"
          /\ resp'.activity_name = resp.activity_name
          /\ resp'.email = resp.email )
        => ( /\ resp'.status_code = 200
             /\ activities' = before )
      ]_vars

\* a seeded participant who had left Chess Club signed up again, behind a
\* new student, and left again: the roster is back in the order it had
C13_Witness ==
    /\ undone
    /\ resp.op = "unregister"
    /\ resp.status_code = 200
    /\ resp.email = "michael@mergington.edu"
    /\ Roster(activities, "Chess Club") =
         <<"daniel@mergington.edu", NewStudent(1)>>

\* the times p is on the list s
Count(s, p) == Cardinality({i \in 1..Len(s) : s[i] = p})

\* C14: with signup requests handled at the same time, check and append as
\* separate steps and no lock, no participant is ever on an activity's
\* participants list twice (two signup(A, p) that both pass the check both
\* answer 200 and both append p).
C14_ConcurrentSignupNoDuplicates ==
    \A a \in DOMAIN activities : \A p \in ConcEmails :
        Count(Roster(activities, a), p) <= 1

\* C15: with unregister requests handled at the same time, check and
\* removal as separate steps and no lock, no request is at its removal step
\* with its participant already off the roster, and every unregister
\* answered so far was answered 200, 400 or 404.
C15_ConcurrentUnregisterStructured ==
    \A t \in Threads :
        /\ threads[t].pc = "remove"
             => Contains(Roster(activities, threads[t].resp.activity_name),
                         threads[t].resp.email)
        /\ (threads[t].pc = "done" /\ threads[t].resp.op = "unregister")
             => threads[t].resp.status_code \in {200, 400, 404}

=============================================================================
